---- MODULE Spec2Model ----
(***************************************************************************)
(* The e-commerce backend of src/main.py: the product and order routes     *)
(* over the document store, and the serialization helper.                  *)
(*                                                                         *)
(* Python values are pairs <<kind, payload>> (x[1] the kind, x[2] the       *)
(* payload): None, ObjectId, str, float, int, bool, list, dict.            *)
(* A str is a sequence of tokens: the hexadecimal rendering of an ObjectId *)
(* is a sequence of one-character tokens, an ordinary text is one token.   *)
(* A float is held in thousandths (1250 is 1.25); the prices drawn are     *)
(* exact binary fractions, so the arithmetic of the code is exact on them. *)
(*                                                                         *)
(* bson is taken to be importable (ObjectId is the class, never None): the *)
(* other branches of the source end in isinstance(value, None), an error.  *)
(* db is None or the handle of a storage whose calls succeed, fixed when   *)
(* the module is imported; its truth value is that of "db is not None".    *)
(* The handlers run on the server's worker threads, so requests interleave *)
(* between their storage calls.                                            *)
(***************************************************************************)
EXTENDS Integers, Sequences, FiniteSets, TLC

\* ------------------------------------------------------------------ bounds
\* Requests the server takes in all.
MaxRequests == 2
\* Characters of an ObjectId's hexadecimal form (24 in bson).
OidLen == 2
\* Requests handled at the same time.
NumWorkers == 2

VARIABLES db, product, order, wk, last, started, ser

vars == <<db, product, order, wk, last, started, ser>>
apiVars == <<db, product, order, wk, last, started>>

\* ------------------------------------------------------------------ values
None == <<"none", 0>>
Oid(n) == <<"oid", n>>
Str(s) == <<"str", s>>
Text(t) == Str(<<t>>)
Float(m) == <<"float", m>>
IntV(n) == <<"int", n>>
Bool(b) == <<"bool", b>>
List(s) == <<"list", s>>
Dict(f) == <<"dict", f>>

EmptyDoc == [f \in {} |-> None]

\* isinstance(value, ObjectId)
IsObjectId(value) == value[1] = "oid"

HexLower == <<"0", "1", "2", "3", "4", "5", "6", "7", "8", "9", "a", "b", "c", "d", "e", "f">>
HexUpper == <<"0", "1", "2", "3", "4", "5", "6", "7", "8", "9", "A", "B", "C", "D", "E", "F">>

RECURSIVE HexDigits(_, _)
HexDigits(n, len) ==
    IF len = 0 THEN <<>>
    ELSE Append(HexDigits(n \div 16, len - 1), HexLower[(n % 16) + 1])

\* str(ObjectId): the lower-case hexadecimal form, OidLen characters.
OidToStr(value) == Str(HexDigits(value[2], OidLen))

IsHexChar(c) == \E i \in 1..16 : HexLower[i] = c \/ HexUpper[i] = c
HexValue(c) == CHOOSE i \in 0..15 : HexLower[i + 1] = c \/ HexUpper[i + 1] = c

RECURSIVE HexNumber(_)
HexNumber(s) ==
    IF s = <<>> THEN 0
    ELSE 16 * HexNumber(SubSeq(s, 1, Len(s) - 1)) + HexValue(s[Len(s)])

\* ObjectId(s) of a str: raises (here: None) unless s is OidLen hexadecimal
\* characters of either case.
ObjectIdValid(s) == Len(s[2]) = OidLen /\ \A i \in 1..Len(s[2]) : IsHexChar(s[2][i])
ObjectId(s) == IF ObjectIdValid(s) THEN Oid(HexNumber(s[2])) ELSE None

\* ----------------------------------------------------------- serialization
serialize_id(value) == IF IsObjectId(value) THEN OidToStr(value) ELSE value

Pop(d, key) == [f \in DOMAIN d \ {key} |-> d[f]]
Put(d, key, value) == [f \in DOMAIN d \cup {key} |-> IF f = key THEN value ELSE d[f]]
Get(d, key) == IF key \in DOMAIN d THEN d[key] ELSE None

\* A plausible slip: the raw identifier is renamed whenever the key is present,
\* a null one included.
serialize_document_present(doc) ==
    IF doc = None \/ doc[2] = EmptyDoc THEN doc
    ELSE LET d0 == doc[2]
             d1 == IF "_id" \in DOMAIN d0
                   THEN Put(Pop(d0, "_id"), "id", serialize_id(d0["_id"]))
                   ELSE d0
         IN Dict([f \in DOMAIN d1 |-> IF IsObjectId(d1[f]) THEN OidToStr(d1[f]) ELSE d1[f]])

serialize_document(doc) ==
    IF doc = None \/ doc[2] = EmptyDoc THEN doc
    ELSE LET d0 == doc[2]
             d1 == IF Get(d0, "_id") # None
                   THEN Put(Pop(d0, "_id"), "id", serialize_id(d0["_id"]))
                   ELSE d0
         IN Dict([f \in DOMAIN d1 |-> IF IsObjectId(d1[f]) THEN OidToStr(d1[f]) ELSE d1[f]])

\* ------------------------------------------------------------ the store
\* database.py is not among the sources: db, create_document and get_documents
\* follow the storage interface (insert one document, get a fresh identifier
\* back as a str; find the documents of a collection).
FirstOid == 10

\* The identifier the store gives the next document: fresh in both collections.
NewObjectId == Oid(FirstOid + Len(product) + Len(order))

\* The collection after insert_one(data): data with its fresh _id, at the end.
Inserted(coll, data) == Append(coll, Put(data, "_id", NewObjectId))

\* create_document returns str(inserted_id).
create_document_id == OidToStr(NewObjectId)

get_documents(coll) == coll

\* collection.find_one({"_id": oid}): the first match, or None.
find_one(coll, oid) ==
    IF \E i \in 1..Len(coll) : coll[i]["_id"] = oid
    THEN Dict(coll[CHOOSE i \in 1..Len(coll) :
                     /\ coll[i]["_id"] = oid
                     /\ \A j \in 1..(i - 1) : coll[j]["_id"] # oid])
    ELSE None

\* collection.find({"_id": {"$in": oids}}), in the collection's order.
find_in(coll, oids) == SelectSeq(coll, LAMBDA d : d["_id"] \in oids)

Ids(coll) == {coll[i]["_id"] : i \in 1..Len(coll)}

\* --------------------------------------------------------- request models
\* class ProductIn: what the dispatcher accepts as the body of POST /api/products.
IsStr(d, f) == f \in DOMAIN d /\ d[f][1] = "str"
IsOptStr(d, f) == f \notin DOMAIN d \/ d[f][1] \in {"str", "none"}

ProductIn(body) ==
    /\ IsStr(body, "title")
    /\ IsOptStr(body, "description")
    /\ "price" \in DOMAIN body /\ body["price"][1] = "float"
    /\ IsStr(body, "category")
    /\ IsOptStr(body, "image")
    /\ "in_stock" \in DOMAIN body => body["in_stock"][1] = "bool"

\* product.model_dump(): every field, the defaults filled in.
ProductDump(body) ==
    [title |-> body["title"],
     description |-> Get(body, "description"),
     price |-> body["price"],
     category |-> body["category"],
     image |-> Get(body, "image"),
     in_stock |-> IF "in_stock" \in DOMAIN body THEN body["in_stock"] ELSE Bool(TRUE)]

\* class OrderItemIn
OrderItemIn(item) ==
    /\ IsStr(item, "product_id")
    /\ IsStr(item, "title")
    /\ "price" \in DOMAIN item /\ item["price"][1] = "float"
    /\ "quantity" \in DOMAIN item /\ item["quantity"][1] = "int"
    /\ IsOptStr(item, "image")

\* class OrderIn
OrderIn(body) ==
    /\ IsStr(body, "customer_name")
    /\ IsStr(body, "customer_email")
    /\ IsStr(body, "shipping_address")
    /\ "items" \in DOMAIN body /\ body["items"][1] = "list"
    /\ \A i \in 1..Len(body["items"][2]) : OrderItemIn(body["items"][2][i])

\* schemas.py, class Product: the shape of a document of the product collection.
Product(doc) ==
    /\ IsStr(doc, "title")
    /\ IsOptStr(doc, "description")
    /\ "price" \in DOMAIN doc /\ doc["price"][1] = "float" /\ doc["price"][2] >= 0
    /\ IsStr(doc, "category")
    /\ IsOptStr(doc, "image")
    /\ "in_stock" \in DOMAIN doc => doc["in_stock"][1] = "bool"

\* schemas.py, class OrderItem: the shape of an item of a stored order.
OrderItem(item) ==
    /\ IsStr(item, "product_id")
    /\ IsStr(item, "title")
    /\ "price" \in DOMAIN item /\ item["price"][1] = "float"
    /\ "quantity" \in DOMAIN item /\ item["quantity"][1] = "int" /\ item["quantity"][2] >= 1
    /\ IsOptStr(item, "image")

\* i.model_dump() of an order item
ItemDump(item) ==
    [product_id |-> item["product_id"],
     title |-> item["title"],
     price |-> item["price"],
     quantity |-> item["quantity"],
     image |-> Get(item, "image")]

Max(a, b) == IF a >= b THEN a ELSE b

\* sum(i.price * max(1, i.quantity) for i in order.items), in thousandths
RECURSIVE Total(_)
Total(items) ==
    IF items = <<>> THEN 0
    ELSE items[1]["price"][2] * Max(1, items[1]["quantity"][2]) + Total(Tail(items))

\* round(x, 2) of a float in thousandths: to the nearest hundredth, a tie to
\* the even one (the drawn values are exact in binary, so the tie is a tie).
Round2(m) ==
    LET q == m \div 10
        r == m % 10
    IN IF r < 5 THEN 10 * q
       ELSE IF r > 5 THEN 10 * (q + 1)
       ELSE IF q % 2 = 0 THEN 10 * q ELSE 10 * (q + 1)

\* The document create_order stores.
OrderData(body) ==
    [customer_name |-> body["customer_name"],
     customer_email |-> body["customer_email"],
     shipping_address |-> body["shipping_address"],
     items |-> List([i \in 1..Len(body["items"][2]) |-> Dict(ItemDump(body["items"][2][i]))]),
     total_amount |-> Float(Round2(Total(body["items"][2]))),
     status |-> Text("pending")]

\* The literal catalog of seed_products.
sample ==
    << [title |-> Text("Vintage Leather Backpack"),
        description |-> Text("Handcrafted full-grain leather backpack with padded laptop sleeve."),
        price |-> Float(129990), category |-> Text("Bags"),
        image |-> Text("https://images.unsplash.com/photo-1514477917009-389c76a86b68?q=80&w=1200&auto=format&fit=crop"),
        in_stock |-> Bool(TRUE)],
       [title |-> Text("Minimalist Watch"),
        description |-> Text("Stainless steel case, sapphire glass, Japanese movement."),
        price |-> Float(89000), category |-> Text("Accessories"),
        image |-> Text("https://images.unsplash.com/photo-1511379938547-c1f69419868d?q=80&w=1200&auto=format&fit=crop"),
        in_stock |-> Bool(TRUE)],
       [title |-> Text("Wireless Headphones"),
        description |-> Text("Active noise cancellation with 30h battery life."),
        price |-> Float(159000), category |-> Text("Audio"),
        image |-> Text("https://images.unsplash.com/photo-1518443254571-1f1e5b2d1a1f?q=80&w=1200&auto=format&fit=crop"),
        in_stock |-> Bool(TRUE)],
       [title |-> Text("Ceramic Mug"),
        description |-> Text("Matte glaze 12oz mug, microwave and dishwasher safe."),
        price |-> Float(18500), category |-> Text("Home"),
        image |-> Text("https://images.unsplash.com/photo-1512100356356-de1b84283e18?q=80&w=1200&auto=format&fit=crop"),
        in_stock |-> Bool(TRUE)] >>

\* ---------------------------------------------------------------- inputs
ProductBodies ==
    { [title |-> Text("Desk Lamp"), price |-> Float(1250), category |-> Text("Home")],
      [title |-> Text("Refund"), description |-> Text("Store credit"), price |-> Float(-500),
       category |-> Text("Misc"), image |-> None, in_stock |-> Bool(FALSE)],
      [price |-> Float(1250), category |-> Text("Home")] }

Item(price, quantity) ==
    Dict([product_id |-> Text("p1"), title |-> Text("Thing"),
          price |-> Float(price), quantity |-> IntV(quantity)])

OrderBody(items) ==
    [customer_name |-> Text("Ada"), customer_email |-> Text("ada@example.org"),
     shipping_address |-> Text("1 Main St"), items |-> List(items)]

ItemLists ==
    { <<>>,
      <<Item(10000, 2), Item(5500, 1)>>,
      <<Item(125, 1)>>,
      <<Item(10000, 0), Item(5500, -2)>> }

OrderBodies ==
    {OrderBody([i \in 1..Len(l) |-> l[i][2]]) : l \in ItemLists}
        \cup {[customer_name |-> Text("Ada")]}

\* Path identifiers: the str of identifiers the store gives (stored or not),
\* their upper-case spelling, and strings that are no identifier.
Upper(s) == Str([i \in 1..Len(s[2]) |-> HexUpper[HexValue(s[2][i]) + 1]])

PathIds ==
    LET known == {OidToStr(Oid(FirstOid + n)) : n \in {0, 1, Len(sample) * MaxRequests}}
    IN known
         \cup {Upper(OidToStr(Oid(FirstOid)))}
         \cup {Str(Tail(OidToStr(Oid(FirstOid))[2])),
               Str(Append(OidToStr(Oid(FirstOid))[2], "0")),
               Str(<<"g">> \o Tail(OidToStr(Oid(FirstOid))[2]))}

\* --------------------------------------------------------------- requests
\* A request is an invocation of a route's handler with a path parameter or a
\* body its request model accepts; a storage call is one step of it.
Workers == 1..NumWorkers

Idle == [pc |-> "idle", input |-> None, ids |-> <<>>, before |-> {}, ops |-> 0]

\* The last response sent: the route and its input, the status and the body,
\* and for the properties the identifiers the request was given by the store
\* (ids), the identifiers of its collection when it first read or wrote it
\* (before), the storage calls it made (ops), and the documents its collection
\* held at its last read (seen).
NoResponse ==
    [route |-> "none", input |-> None, status |-> 0, body |-> None,
     ids |-> <<>>, before |-> {}, ops |-> 0, seen |-> 0]

HTTPException(detail) == Dict([detail |-> Text(detail)])

\* The first idle worker takes the next request (the workers are alike).
Accept(w) ==
    /\ wk[w].pc = "idle"
    /\ \A v \in Workers : v < w => wk[v].pc # "idle"
    /\ started < MaxRequests
    /\ started' = started + 1

Respond(w, route, input, status, body, ids, before, ops) ==
    /\ last' = [route |-> route, input |-> input, status |-> status, body |-> body,
                ids |-> ids, before |-> before, ops |-> ops,
                seen |-> IF ids = <<>> THEN 0
                         ELSE IF route = "create_order" THEN Len(order) ELSE Len(product)]
    /\ wk' = [wk EXCEPT ![w] = Idle]

Call(w, pc, input, ids, before) ==
    /\ wk' = [wk EXCEPT ![w] = [pc |-> pc, input |-> input, ids |-> ids,
                                before |-> before, ops |-> 1]]
    /\ UNCHANGED last

\* GET /
read_root(w) ==
    /\ Accept(w)
    /\ Respond(w, "read_root", None, 200,
               Dict([message |-> Text("Ecommerce backend is running")]), <<>>, {}, 0)
    /\ UNCHANGED <<db, product, order, ser>>

\* GET /test. db.list_collection_names() names the collections that hold a
\* document; the fields read from the environment are left out.
test_database(w) ==
    /\ Accept(w)
    /\ LET collections ==
               (IF product # <<>> THEN <<Text("product")>> ELSE <<>>)
                   \o (IF order # <<>> THEN <<Text("order")>> ELSE <<>>)
       IN IF db
          THEN Respond(w, "test_database", None, 200,
                       Dict([backend |-> Text("Running"),
                             database |-> Text("Connected & Working"),
                             connection_status |-> Text("Connected"),
                             collections |-> List(collections)]), <<>>, {}, 1)
          ELSE Respond(w, "test_database", None, 200,
                       Dict([backend |-> Text("Running"),
                             database |-> Text("Not Available"),
                             connection_status |-> Text("Not Connected"),
                             collections |-> List(<<>>)]), <<>>, {}, 0)
    /\ UNCHANGED <<db, product, order, ser>>

\* GET /schema: the JSON schema of each model of schemas.py, here its name.
get_schema(w) ==
    /\ Accept(w)
    /\ Respond(w, "get_schema", None, 200,
               Dict([user |-> Text("User"), product |-> Text("Product"),
                     order |-> Text("Order")]), <<>>, {}, 0)
    /\ UNCHANGED <<db, product, order, ser>>

\* GET /api/products
list_products(w) ==
    /\ Accept(w)
    /\ LET docs == IF db THEN get_documents(product) ELSE <<>>
       IN Respond(w, "list_products", None, 200,
                  List([i \in 1..Len(docs) |-> serialize_document(Dict(docs[i]))]),
                  <<>>, {}, IF db THEN 1 ELSE 0)
    /\ UNCHANGED <<db, product, order, ser>>

\* A plausible slip: an identifier that does not parse is looked up and not found.
get_product_result_unparsed(product_id) ==
    IF ~db
    THEN [status |-> 500, body |-> HTTPException("Database not available"), ops |-> 0]
    ELSE LET doc == find_one(product, ObjectId(product_id))
         IN IF doc = None
            THEN [status |-> 404, body |-> HTTPException("Product not found"), ops |-> 1]
            ELSE [status |-> 200, body |-> serialize_document(doc), ops |-> 1]

\* The body of get_product: the status, the response body, the storage calls.
get_product_result(product_id) ==
    IF ~db
    THEN [status |-> 500, body |-> HTTPException("Database not available"), ops |-> 0]
    ELSE IF ObjectId(product_id) = None
    THEN [status |-> 400, body |-> HTTPException("Invalid product id"), ops |-> 0]
    ELSE LET doc == find_one(product, ObjectId(product_id))
         IN IF doc = None
            THEN [status |-> 404, body |-> HTTPException("Product not found"), ops |-> 1]
            ELSE [status |-> 200, body |-> serialize_document(doc), ops |-> 1]

\* GET /api/products/{product_id}
get_product(w, product_id) ==
    /\ Accept(w)
    /\ LET r == get_product_result(product_id)
       IN Respond(w, "get_product", product_id, r.status, r.body, <<>>,
                  IF r.ops = 0 THEN {} ELSE Ids(product), r.ops)
    /\ UNCHANGED <<db, product, order, ser>>

\* POST /api/products, to the insert.
create_product(w, body) ==
    /\ Accept(w)
    /\ IF ~db
       THEN /\ Respond(w, "create_product", Dict(body), 500,
                       HTTPException("Database not available"), <<>>, {}, 0)
            /\ UNCHANGED product
       ELSE /\ product' = Inserted(product, ProductDump(body))
            /\ Call(w, "create_product_find", Dict(body), <<create_document_id>>, Ids(product))
    /\ UNCHANGED <<db, order, ser>>

\* A plausible slip: the re-read takes the newest product of the collection.
created_product_newest(new_id) == Dict(product[Len(product)])

\* The re-read of create_product.
created_product(new_id) == find_one(product, ObjectId(new_id))

\* POST /api/products, the re-read of the created document.
create_product_find(w) ==
    /\ wk[w].pc = "create_product_find"
    /\ LET new_id == wk[w].ids[1]
           doc == created_product(new_id)
       IN Respond(w, "create_product", wk[w].input, 201, serialize_document(doc),
                  wk[w].ids, wk[w].before, wk[w].ops + 1)
    /\ UNCHANGED <<db, product, order, started, ser>>

\* A plausible slip: the seed route empties the catalog before it fills it.
seed_insert_one_reset(coll, i) == Inserted(IF i = 1 THEN <<>> ELSE coll, sample[i])

\* One turn of seed_products' loop over sample.
seed_insert_one(coll, i) == Inserted(coll, sample[i])

\* POST /api/seed, to the first insert.
seed_products(w) ==
    /\ Accept(w)
    /\ IF ~db
       THEN /\ Respond(w, "seed_products", None, 500,
                       HTTPException("Database not available"), <<>>, {}, 0)
            /\ UNCHANGED product
       ELSE /\ product' = seed_insert_one(product, 1)
            /\ Call(w, "seed_insert", None, <<create_document_id>>, Ids(product))
    /\ UNCHANGED <<db, order, ser>>

\* POST /api/seed, the next turn of the loop.
seed_insert(w) ==
    /\ wk[w].pc = "seed_insert"
    /\ Len(wk[w].ids) < Len(sample)
    /\ product' = seed_insert_one(product, Len(wk[w].ids) + 1)
    /\ wk' = [wk EXCEPT ![w].ids = Append(@, create_document_id), ![w].ops = @ + 1]
    /\ UNCHANGED <<db, order, last, started, ser>>

\* A plausible slip: the read takes the whole catalog (the find({}) of the source).
seed_query_all(inserted) == product

\* The read of seed_products: the products whose _id is among the inserted.
seed_query(inserted) ==
    find_in(product, {ObjectId(inserted[i]) : i \in 1..Len(inserted)})

\* POST /api/seed, the read of the created products.
seed_find(w) ==
    /\ wk[w].pc = "seed_insert"
    /\ Len(wk[w].ids) = Len(sample)
    /\ LET docs == seed_query(wk[w].ids)
       IN Respond(w, "seed_products", None, 201,
                  List([i \in 1..Len(docs) |-> serialize_document(Dict(docs[i]))]),
                  wk[w].ids, wk[w].before, wk[w].ops + 1)
    /\ UNCHANGED <<db, product, order, started, ser>>

\* Plausible slips: the items are tested before the storage; the items are not tested.
create_order_check_items_first(body) ==
    IF body["items"][2] = <<>> THEN 400 ELSE IF ~db THEN 500 ELSE 0

create_order_check_storage_only(body) == IF ~db THEN 500 ELSE 0

\* The tests create_order opens with: the status they raise, 0 when they pass.
create_order_check(body) ==
    IF ~db THEN 500 ELSE IF body["items"][2] = <<>> THEN 400 ELSE 0

\* POST /api/orders, to the insert.
create_order(w, body) ==
    /\ Accept(w)
    /\ IF create_order_check(body) = 500
       THEN /\ Respond(w, "create_order", Dict(body), 500,
                       HTTPException("Database not available"), <<>>, {}, 0)
            /\ UNCHANGED order
       ELSE IF create_order_check(body) = 400
       THEN /\ Respond(w, "create_order", Dict(body), 400,
                       HTTPException("Order must contain at least one item"), <<>>, {}, 0)
            /\ UNCHANGED order
       ELSE /\ order' = Inserted(order, OrderData(body))
            /\ Call(w, "create_order_find", Dict(body), <<create_document_id>>, Ids(order))
    /\ UNCHANGED <<db, product, ser>>

\* POST /api/orders, the re-read of the created order.
create_order_find(w) ==
    /\ wk[w].pc = "create_order_find"
    /\ LET new_id == wk[w].ids[1]
           created == find_one(order, ObjectId(new_id))
           result == serialize_document(created)
       IN Respond(w, "create_order", wk[w].input, 201,
                  Dict(Put(result[2], "message", Text("Order placed successfully"))),
                  wk[w].ids, wk[w].before, wk[w].ops + 1)
    /\ UNCHANGED <<db, product, order, started, ser>>

\* db is set once, when the module is imported; the collections start empty.
ApiInit ==
    /\ db \in BOOLEAN
    /\ product = <<>>
    /\ order = <<>>
    /\ wk = [w \in Workers |-> Idle]
    /\ last = NoResponse
    /\ started = 0

\* ------------------------------------------- the serialization helper alone
SerFields == {"_id", "id", "owner"}
SerValues ==
    {None, Oid(FirstOid), OidToStr(Oid(FirstOid)), Text("sku-1"), IntV(0),
     List(<<Oid(FirstOid)>>)}
SerDocs == {None} \cup {Dict(f) : f \in UNION {[D -> SerValues] : D \in SUBSET SerFields}}

SerIdle == [pc |-> "idle", doc |-> None, once |-> None, twice |-> None]

InitSerialize ==
    /\ ApiInit
    /\ db = TRUE
    /\ \E d \in SerDocs : ser = [SerIdle EXCEPT !.doc = d]

SerializeOnce ==
    /\ ser.pc = "idle"
    /\ ser' = [ser EXCEPT !.pc = "once", !.once = serialize_document(ser.doc)]
    /\ UNCHANGED apiVars

SerializeTwice ==
    /\ ser.pc = "once"
    /\ ser' = [ser EXCEPT !.pc = "twice", !.twice = serialize_document(ser.once)]
    /\ UNCHANGED apiVars

NextSerialize == SerializeOnce \/ SerializeTwice

SpecSerialize == InitSerialize /\ [][NextSerialize]_vars

\* ---------------------------------------------------------------- the API
Init ==
    /\ ApiInit
    /\ ser = SerIdle

Next ==
    \E w \in Workers :
        \/ read_root(w)
        \/ test_database(w)
        \/ get_schema(w)
        \/ list_products(w)
        \/ \E product_id \in PathIds : get_product(w, product_id)
        \/ \E body \in {b \in ProductBodies : ProductIn(b)} : create_product(w, body)
        \/ create_product_find(w)
        \/ seed_products(w)
        \/ seed_insert(w)
        \/ seed_find(w)
        \/ \E body \in {b \in OrderBodies : OrderIn(b)} : create_order(w, body)
        \/ create_order_find(w)

Spec == Init /\ [][Next]_vars

\* ------------------------------------------------------------- properties
Responded(route) == last.route = route
Created(route) == last.route = route /\ last.status = 201

\* The stored document a finished create request was given.
StoredAs(coll, id) == find_one(coll, ObjectId(id))[2]

RECURSIVE SumPriceQuantity(_)
SumPriceQuantity(items) ==
    IF items = <<>> THEN 0
    ELSE items[1]["price"][2] * items[1]["quantity"][2] + SumPriceQuantity(Tail(items))

\* C1: the total_amount an accepted order is stored and returned with is the
\* sum over its items of price x quantity, rounded to 2 decimal places, for
\* every quantity OrderItemIn accepts.
C1_TotalIsSumOfPriceTimesQuantity ==
    Created("create_order") =>
        LET total == Float(Round2(SumPriceQuantity(last.input[2]["items"][2])))
        IN /\ last.body[2]["total_amount"] = total
           /\ StoredAs(order, last.ids[1])["total_amount"] = total

EveryOrderHasAnItem == \A i \in 1..Len(order) : order[i]["items"][2] # <<>>

EmptyItemsRequest == Responded("create_order") /\ last.input[2]["items"][2] = <<>>

\* C2 as stated: an order with no items is answered 400 and nothing is
\* inserted, so every stored order has at least one item.
C2_EmptyItemsIs400 ==
    /\ EmptyItemsRequest => last.status = 400 /\ last.ids = <<>> /\ last.ops = 0
    /\ EveryOrderHasAnItem

\* C2, amended: an order with no items is answered 400 while storage is
\* available and 500 while it is not; either way nothing is inserted, so every
\* stored order has at least one item.
C2_EmptyItemsRefused ==
    /\ EmptyItemsRequest =>
           /\ last.status = IF db THEN 400 ELSE 500
           /\ last.ids = <<>>
           /\ last.ops = 0
    /\ EveryOrderHasAnItem

C2_Witness ==
    /\ db
    /\ EmptyItemsRequest
    /\ last.status = 400
    /\ order # <<>>

\* What C3 says of a finished GET /api/products/{id}: 400 for an identifier
\* that does not parse, 404 for a well-formed one no stored product has, and
\* the serialized product, with 200, exactly when one has it.
GetProductOutcome ==
    LET oid == ObjectId(last.input)
        body == last.body[2]
    IN /\ ~ObjectIdValid(last.input) => last.status = 400
       /\ ObjectIdValid(last.input) /\ oid \notin last.before => last.status = 404
       /\ last.status = 200 <=> ObjectIdValid(last.input) /\ oid \in last.before
       /\ last.status = 200 =>
              /\ "_id" \notin DOMAIN body
              /\ body["id"] = OidToStr(oid)
              /\ \E i \in 1..Len(product) :
                     /\ product[i]["_id"] = oid
                     /\ DOMAIN body = (DOMAIN product[i] \ {"_id"}) \cup {"id"}
                     /\ \A f \in DOMAIN body \ {"id"} : body[f] = product[i][f]

\* C3 as stated: the outcome whatever the state of the storage.
C3_GetProductStatus == Responded("get_product") => GetProductOutcome

\* C3, amended: the outcome while storage is available; while it is not, the
\* response is 500 for every identifier.
C3_GetProductStatusAvailable ==
    Responded("get_product") => IF db THEN GetProductOutcome ELSE last.status = 500

\* A product found under the upper-case spelling of its identifier.
C3_Witness ==
    /\ Responded("get_product")
    /\ last.status = 200
    /\ last.input # last.body[2]["id"]

\* What C4 says of a finished POST /api/seed: 4 new products, the catalog's,
\* under 4 fresh identifiers distinct from each other and from every product
\* stored before, and exactly those 4 returned.
SeedOutcome ==
    LET n == Len(sample)
        body == last.body[2]
    IN /\ last.status = 201
       /\ n = 4
       /\ Len(last.ids) = n
       /\ \A i, j \in 1..n : i # j => last.ids[i] # last.ids[j]
       /\ \A i \in 1..n :
              /\ ObjectId(last.ids[i]) \notin last.before
              /\ Cardinality({k \in 1..Len(product) : product[k]["_id"] = ObjectId(last.ids[i])}) = 1
              /\ StoredAs(product, last.ids[i]) = Put(sample[i], "_id", ObjectId(last.ids[i]))
       /\ Len(body) = n
       /\ \A i \in 1..n : \E j \in 1..n : body[j] = Dict(Put(sample[i], "id", last.ids[i]))

C5_CreateProductEchoes ==
    Responded("create_product") /\ db =>
        LET body == last.body[2]
            input == last.input[2]
            oid == ObjectId(body["id"])
        IN /\ last.status = 201
           /\ Len(last.ids) = 1
           /\ body["id"][1] = "str" /\ body["id"][2] # <<>>
           /\ oid \notin last.before
           /\ Cardinality({k \in 1..Len(product) : product[k]["_id"] = oid}) = 1
           /\ "_id" \notin DOMAIN body
           /\ body["title"] = input["title"]
           /\ body["price"] = input["price"]
           /\ body["category"] = input["category"]
           /\ body["description"] =
                  IF "description" \in DOMAIN input THEN input["description"] ELSE None
           /\ body["image"] = IF "image" \in DOMAIN input THEN input["image"] ELSE None
           /\ body["in_stock"] =
                  IF "in_stock" \in DOMAIN input THEN input["in_stock"] ELSE Bool(TRUE)
           /\ \A f \in DOMAIN body \ {"id"} : StoredAs(product, body["id"])[f] = body[f]

\* A creation finished after another request inserted a product between its
\* insert and its re-read.
C5_Witness ==
    /\ Created("create_product")
    /\ last.seen > Cardinality(last.before) + 1

\* C6: while storage is unavailable the four storage routes answer 500 to
\* every identifier and body, and no storage call is made.
C6_UnavailableIs500 ==
    ~db =>
        /\ last.route \in {"get_product", "create_product", "seed_products", "create_order"}
               => last.status = 500 /\ last.ops = 0 /\ last.ids = <<>>
        /\ product = <<>> /\ order = <<>>
        /\ \A w \in Workers : wk[w].pc = "idle"

\* An order with no items sent while storage is unavailable.
C6_Witness ==
    /\ ~db
    /\ EmptyItemsRequest
    /\ last.status = 500

\* C7: every stored product has price >= 0, a negative price being refused.
C7_PricesNonNegative ==
    /\ \A i \in 1..Len(product) : Product(Pop(product[i], "_id"))
    /\ Responded("create_product") /\ last.input[2]["price"][2] < 0 =>
           last.status \notin {200, 201}

\* C8: every item of every stored order has quantity >= 1, an order with an
\* item of quantity <= 0 being refused, so max(1, quantity) changes no value.
C8_QuantitiesPositive ==
    /\ \A i \in 1..Len(order) : \A j \in 1..Len(order[i]["items"][2]) :
           LET item == order[i]["items"][2][j][2]
           IN OrderItem(item) /\ Max(1, item["quantity"][2]) = item["quantity"][2]
    /\ Responded("create_order")
           /\ (\E j \in 1..Len(last.input[2]["items"][2]) :
                  last.input[2]["items"][2][j]["quantity"][2] <= 0)
           => last.status \notin {200, 201}

IsSerialized(d) ==
    /\ d # None
    /\ IsStr(d[2], "id")
    /\ \A f \in DOMAIN d[2] : ~IsObjectId(d[2][f])

Idempotent ==
    /\ ser.pc = "twice" => ser.twice = ser.once
    /\ ser.pc # "idle" /\ (ser.doc = None \/ ser.doc = Dict(EmptyDoc)) => ser.once = ser.doc

\* C9 as stated: serialize_document is idempotent, the empty and the absent
\* document included, and returns unchanged a document with a str id and no
\* ObjectId value.
C9_SerializeIdempotent ==
    /\ Idempotent
    /\ ser.pc # "idle" /\ IsSerialized(ser.doc) => ser.once = ser.doc

\* C9, amended: serialize_document is idempotent, the empty and the absent
\* document included, and returns unchanged a document with a str id, no
\* ObjectId value and no _id other than None.
C9_SerializeIdempotentNoRawId ==
    /\ Idempotent
    /\ ser.pc # "idle" /\ IsSerialized(ser.doc) /\ Get(ser.doc[2], "_id") = None
           => ser.once = ser.doc

\* A document with both an ObjectId _id and an id, serialized twice.
C9_Witness ==
    /\ ser.pc = "twice"
    /\ ser.doc # None
    /\ {"_id", "id"} \subseteq DOMAIN ser.doc[2]
    /\ IsObjectId(ser.doc[2]["_id"])
    /\ ser.once # ser.doc

IsPrefix(s, t) == Len(s) <= Len(t) /\ \A i \in 1..Len(s) : t[i] = s[i]

GetRoutes == {"read_root", "test_database", "get_schema", "list_products", "get_product"}

\* A step keeps every stored document as it is, and the step that answers a
\* GET keeps both collections as they are.
KeepsStored ==
    /\ IsPrefix(product, product')
    /\ IsPrefix(order, order')
    /\ last' # last /\ last'.route \in GetRoutes => UNCHANGED <<product, order>>

DistinctIds ==
    LET all == product \o order
    IN \A i, j \in 1..Len(all) : i # j => all[i]["_id"] # all[j]["_id"]

AllPending == \A i \in 1..Len(order) : order[i]["status"] = Text("pending")

\* C10: the store is insert-only. Every step leaves every stored document in
\* its collection with its identifier and its fields, an order's status stays
\* "pending", identifiers stay pairwise distinct, and a GET changes nothing.
C10_InsertOnly == [][KeepsStored]_vars /\ [](DistinctIds /\ AllPending)

\* A catalog two requests have written, no request being in progress.
C10_Witness ==
    /\ Len(product) > Len(sample)
    /\ order = <<>>
    /\ \A w \in Workers : wk[w].pc = "idle"

====
